---- MODULE Spec2Model ----
(***************************************************************************)
(* A model of repository/models/asset.py: the identifier validator, the    *)
(* append pipeline (add_ids / _insert_ids), the id-list query compiler     *)
(* (Asset.asset_subselect_idlist), the identifier normaliser               *)
(* (Asset.normalise_id) and the paged change feed (retrieve_paged_assets). *)
(*                                                                         *)
(* Python strings are sequences of one-character strings.  A dict is a     *)
(* function whose DOMAIN is the set of keys it holds; a key whose value is *)
(* None is modelled as an absent key (dict.get gives None for both).       *)
(***************************************************************************)
EXTENDS Integers, Sequences, FiniteSets, TLC

VARIABLES
    v_ids,          \* _validate_ids: the argument ids
    v_errors,       \* _validate_ids: the returned list of errors
    v_pc,           \* _validate_ids: "call" before the call, "returned" after
    n_entity_id,    \* normalise_id: the argument of the first call
    n_result,       \* normalise_id(entity_id)
    n_again,        \* normalise_id(normalise_id(entity_id))
    n_lowered,      \* normalise_id(entity_id.lower())
    n_done,         \* normalise_id: which of the three calls have returned
    c_idlist,       \* asset_subselect_idlist: the argument idlist
    c_idname,       \* asset_subselect_idlist: the argument idname
    c_outcome,      \* asset_subselect_idlist: "call", "returned" or "ValueError"
    c_fragment,     \* asset_subselect_idlist: the returned text, as a
                    \* sequence of tokens [token |-> ...]
    p_query_result, \* retrieve_paged_assets: the rows the store answers with
    p_outcome,      \* retrieve_paged_assets: "call", "returned" or the exception raised
    p_results,      \* retrieve_paged_assets: the returned list of records
    p_range,        \* retrieve_paged_assets: the returned results_range
    p_warnings,     \* retrieve_paged_assets: the number of warnings logged
    a_pc,           \* add_ids, per call: "idle", the store call it is suspended
                    \* on ("update", "insert_timestamps"), "returned" or "raised"
    a_entity_id,    \* add_ids, per call: the argument entity_id
    a_ids,          \* add_ids, per call: the argument ids
    a_result,       \* add_ids, per call: the list it returned
    a_exception,    \* add_ids, per call: the exception that left it, or "none"
    a_update,       \* add_ids, per call: the state of its repository.update:
                    \* "none", "pending", "resolved" or "failed"
    store_data,     \* the statements the store has committed
    store_modified, \* the entity ids whose timestamps the store has refreshed
    store_log,      \* the calls issued to the store and to insert_timestamps, in order
    uuid_next,      \* uuid.uuid4(): the number of uuids drawn so far
    options_standalone, \* options.standalone
    os_pc,          \* Asset.on_store: "idle", "insert_timestamps" (suspended on
                    \* it), "returned" or "raised"
    os_payload,     \* Asset.on_store: the argument payload
    os_content_type,\* Asset.on_store: the argument content_type
    os_parsed,      \* Asset.on_store: graph.parse has been called on the payload
    os_result,      \* Asset.on_store: the list it returned
    os_exception,   \* Asset.on_store: the exception that left it, or "none"
    sn_pc,          \* send_notification: "none", "spawned" (handed to the
                    \* IOLoop), "get_token" or "post" (suspended on it), "done"
    sn_spawned,     \* the number of spawn_callback calls made by on_store
    sn_tokens,      \* send_notification: the number of get_token calls issued
    sn_posts,       \* send_notification: the number of POSTs issued
    sn_failed,      \* send_notification: the step that failed, or "none"
    sn_logged,      \* send_notification: the number of logging.exception calls
    sn_escaped      \* send_notification: the exception that left it, or "none"

validate_vars == <<v_ids, v_errors, v_pc>>
normalise_vars == <<n_entity_id, n_result, n_again, n_lowered, n_done>>
compile_vars == <<c_idlist, c_idname, c_outcome, c_fragment>>
paged_vars == <<p_query_result, p_outcome, p_results, p_range, p_warnings>>
append_vars == <<a_pc, a_entity_id, a_ids, a_result, a_exception, a_update,
                 store_data, store_modified, store_log, uuid_next>>
on_store_vars == <<options_standalone, os_pc, os_payload, os_content_type, os_parsed,
                   os_result, os_exception>>
notification_vars == <<sn_pc, sn_spawned, sn_tokens, sn_posts, sn_failed, sn_logged,
                       sn_escaped>>

vars == <<v_ids, v_errors, v_pc, n_entity_id, n_result, n_again, n_lowered, n_done,
          c_idlist, c_idname, c_outcome, c_fragment,
          p_query_result, p_outcome, p_results, p_range, p_warnings,
          a_pc, a_entity_id, a_ids, a_result, a_exception, a_update,
          store_data, store_modified, store_log, uuid_next,
          options_standalone, os_pc, os_payload, os_content_type, os_parsed,
          os_result, os_exception,
          sn_pc, sn_spawned, sn_tokens, sn_posts, sn_failed, sn_logged, sn_escaped>>

----------------------------------------------------------------------------
(* Bounds of the model *)

\* longest list of ids handed to _validate_ids
MaxIds == 2

\* longest free-form tail of an entity id handed to normalise_id
MaxBody == 2

\* longest idlist handed to asset_subselect_idlist
MaxIdList == 3

\* longest list of ids handed to add_ids
MaxAppendIds == 2

\* the number of add_ids calls that may be in flight together
NumCalls == 2

\* most rows in one page of the store's answer to retrieve_paged_assets
MaxRows == 3

\* the last_modified values of the rows are 1..MaxTime
MaxTime == 3
MaxEntities == 2

----------------------------------------------------------------------------
(* Strings *)

HUB_KEY == <<"h", "u", "b", "_", "k", "e", "y">>
ISBN == <<"i", "s", "b", "n">>

\* all sequences over S of length at most n
SeqsUpTo(S, n) == UNION {[1..k -> S] : k \in 0..n}

\* str.startswith
startswith(s, prefix) ==
    /\ Len(prefix) <= Len(s)
    /\ \A i \in 1..Len(prefix) : s[i] = prefix[i]

\* s[n:]
slice_from(s, n) == [i \in 1..(Len(s) - n) |-> s[i + n]]

UpperCase == <<"A", "B", "C", "D", "E", "F", "G", "H", "I", "J", "K", "L", "M",
               "N", "O", "P", "Q", "R", "S", "T", "U", "V", "W", "X", "Y", "Z">>
LowerCase == <<"a", "b", "c", "d", "e", "f", "g", "h", "i", "j", "k", "l", "m",
               "n", "o", "p", "q", "r", "s", "t", "u", "v", "w", "x", "y", "z">>

lower_char(c) ==
    IF \E i \in 1..Len(UpperCase) : UpperCase[i] = c
    THEN LowerCase[CHOOSE i \in 1..Len(UpperCase) : UpperCase[i] = c]
    ELSE c

\* str.lower
lower(s) == [i \in 1..Len(s) |-> lower_char(s[i])]

----------------------------------------------------------------------------
(* Asset.normalise_id *)

\* PREFIXES['id'], the namespace IRI that the SPARQL prefix id: stands for
PREFIXES_id == <<"h", "t", "t", "p", ":", "/", "/", "n", "s", "/", "i", "d", "/">>

\* the characters ENTITY_ID_REGEX allows in a token: lower-case hex digits
ENTITY_ID_CHARS == {"0", "1", "2", "3", "4", "5", "6", "7", "8", "9",
                    "a", "b", "c", "d", "e", "f"}

ID_COLON == <<"i", "d", ":">>

\* re.match("id:{}".format(ENTITY_ID_REGEX), entity_id): anchored at the start
\* of the string only, so "id:" and one token character suffice
re_match_entity_id(entity_id) ==
    /\ startswith(entity_id, ID_COLON)
    /\ Len(entity_id) > Len(ID_COLON)
    /\ entity_id[Len(ID_COLON) + 1] \in ENTITY_ID_CHARS

\* build_uuid_reference: the bare value wrapped into the id: form
build_uuid_reference(value) == ID_COLON \o value

normalise_id(entity_id) ==
    LET stripped == IF startswith(entity_id, PREFIXES_id)
                    THEN slice_from(entity_id, Len(PREFIXES_id))
                    ELSE entity_id
        lowered == lower(stripped)
    IN  IF ~re_match_entity_id(lowered)
        THEN build_uuid_reference(lowered)
        ELSE lowered

PREFIXES_id_upper == <<"H", "T", "T", "P", ":", "/", "/", "N", "S", "/", "I", "D", "/">>

\* the strings normalise_id is fed: nothing, the namespace IRI or the IRI in
\* upper case; then nothing, id: or ID:; then a short free-form tail
NormaliseInputs ==
    {p \o q \o body :
        p \in {<<>>, PREFIXES_id, PREFIXES_id_upper},
        q \in {<<>>, ID_COLON, <<"I", "D", ":">>},
        body \in SeqsUpTo({"a", "F", "z", "-"}, MaxBody)}

InitNormalise ==
    /\ n_entity_id \in NormaliseInputs
    /\ n_result = <<>>
    /\ n_again = <<>>
    /\ n_lowered = <<>>
    /\ n_done = {}

IdleNormalise ==
    /\ n_entity_id = <<>>
    /\ n_result = <<>>
    /\ n_again = <<>>
    /\ n_lowered = <<>>
    /\ n_done = {"idle"}

\* result = Asset.normalise_id(entity_id)
Normalise ==
    /\ "idle" \notin n_done
    /\ "result" \notin n_done
    /\ n_result' = normalise_id(n_entity_id)
    /\ n_done' = n_done \cup {"result"}
    /\ UNCHANGED <<n_entity_id, n_again, n_lowered>>

\* again = Asset.normalise_id(result)
NormaliseAgain ==
    /\ "result" \in n_done
    /\ "again" \notin n_done
    /\ n_again' = normalise_id(n_result)
    /\ n_done' = n_done \cup {"again"}
    /\ UNCHANGED <<n_entity_id, n_result, n_lowered>>

\* lowered = Asset.normalise_id(entity_id.lower())
NormaliseLowered ==
    /\ "idle" \notin n_done
    /\ "lowered" \notin n_done
    /\ n_lowered' = normalise_id(lower(n_entity_id))
    /\ n_done' = n_done \cup {"lowered"}
    /\ UNCHANGED <<n_entity_id, n_result, n_again>>

----------------------------------------------------------------------------
(* Asset.asset_subselect_idlist *)

\* urllib.quote_plus on one character: letters, digits and _.- are kept, a
\* space becomes +, anything else its %XX code
quote_plus_char(c) ==
    CASE c = " " -> <<"+">>
      [] c = ":" -> <<"%", "3", "A">>
      [] c = "/" -> <<"%", "2", "F">>
      [] c = "+" -> <<"%", "2", "B">>
      [] OTHER -> <<c>>

RECURSIVE quote_plus(_)
quote_plus(s) ==
    IF s = <<>> THEN <<>> ELSE quote_plus_char(Head(s)) \o quote_plus(Tail(s))

\* build_hub_reference: the value as a name of the hub: namespace
build_hub_reference(value) == <<"h", "u", "b", ":">> \o value

\* build_sparql_str: the value as a quoted SPARQL string literal
build_sparql_str(value) == <<"\"">> \o value \o <<"\"">>

\* "(%s)" % (cls.normalise_id(hk['source_id']))
hub_key_tuple(hk) == <<normalise_id(hk.source_id)>>

\* "(%s %s)" % (build_hub_reference(quote_plus(type)), build_sparql_str(quote_plus(id)))
other_id_tuple(i) ==
    <<build_hub_reference(quote_plus(i.source_id_type)),
      build_sparql_str(quote_plus(i.source_id))>>

\* "{\n%s}\n" % (body,)
group(body) == <<[token |-> "{"]>> \o body \o <<[token |-> "}"]>>

\* TEMPLATE.format(idname=idname, idlist="\n".join(idlist)): one token that
\* carries the template's name and what was put into it
select_by(template, idname, idlist) ==
    <<[token |-> template, idname |-> idname, idlist |-> idlist]>>

\* " UNION ".join(subqueries)
RECURSIVE union_join(_)
union_join(subqueries) ==
    IF subqueries = <<>> THEN <<>>
    ELSE IF Len(subqueries) = 1 THEN Head(subqueries)
    ELSE Head(subqueries) \o <<[token |-> "UNION"]>> \o union_join(Tail(subqueries))

is_hub_key(id) == id.source_id_type = HUB_KEY

\* faulty variant: every entry is taken for a foreign id
is_any_id(id) == TRUE

is_other_id(id) == id.source_id_type # HUB_KEY

\* faulty variant: the guard on the empty list is gone
never_empty(idlist) == FALSE

\* `not len(idlist)`
idlist_is_empty(idlist) == Len(idlist) = 0

\* filter(lambda id: id["source_id_type"] == "hub_key", idlist)
RECURSIVE filter_hub_keys(_)
filter_hub_keys(idlist) ==
    IF idlist = <<>> THEN <<>>
    ELSE (IF is_hub_key(Head(idlist)) THEN <<Head(idlist)>> ELSE <<>>)
         \o filter_hub_keys(Tail(idlist))

\* filter(lambda id: id["source_id_type"] != "hub_key", idlist)
RECURSIVE filter_otherids(_)
filter_otherids(idlist) ==
    IF idlist = <<>> THEN <<>>
    ELSE (IF is_other_id(Head(idlist)) THEN <<Head(idlist)>> ELSE <<>>)
         \o filter_otherids(Tail(idlist))

\* the value returned by asset_subselect_idlist past its guard
subselect_fragment(idlist, idname) ==
    LET hub_keys == filter_hub_keys(idlist)
        otherids == filter_otherids(idlist)
        first == IF Len(hub_keys) > 0
                 THEN <<group(select_by("ASSET_SELECT_BY_ENTITY_ID", idname,
                                        [k \in 1..Len(hub_keys) |-> hub_key_tuple(hub_keys[k])]))>>
                 ELSE <<>>
        second == IF Len(otherids) > 0
                  THEN <<group(select_by("ASSET_SELECT_BY_SOURCE_ID", idname,
                                         [k \in 1..Len(otherids) |-> other_id_tuple(otherids[k])]))>>
                  ELSE <<>>
    IN  group(union_join(first \o second))

CompileEntries ==
    {[source_id_type |-> t, source_id |-> s] :
        t \in {HUB_KEY, ISBN, <<"d", " ", "i">>},
        s \in {<<"A", "b">>, <<"1", "/", "2">>}}

InitCompile ==
    /\ c_idlist \in SeqsUpTo(CompileEntries, MaxIdList)
    /\ c_idname \in {"entity", "asset"}
    /\ c_outcome = "call"
    /\ c_fragment = <<>>

IdleCompile ==
    /\ c_idlist = <<>>
    /\ c_idname = "entity"
    /\ c_outcome = "idle"
    /\ c_fragment = <<>>

\* Asset.asset_subselect_idlist(idlist, idname) raises ValueError
SubselectRaise ==
    /\ c_outcome = "call"
    /\ idlist_is_empty(c_idlist)
    /\ c_outcome' = "ValueError"
    /\ UNCHANGED <<c_idlist, c_idname, c_fragment>>

\* Asset.asset_subselect_idlist(idlist, idname) returns
SubselectReturn ==
    /\ c_outcome = "call"
    /\ ~idlist_is_empty(c_idlist)
    /\ c_fragment' = subselect_fragment(c_idlist, c_idname)
    /\ c_outcome' = "returned"
    /\ UNCHANGED <<c_idlist, c_idname>>

----------------------------------------------------------------------------
(* retrieve_paged_assets *)

fields == <<"entity_uri", "source_id", "source_id_type", "last_modified">>

\* dict(zip(fields, x)): zip stops at the shorter of the two
dict_zip(keys, x) ==
    LET n == IF Len(keys) < Len(x) THEN Len(keys) ELSE Len(x)
    IN  [k \in {keys[i] : i \in 1..n} |-> x[CHOOSE i \in 1..n : keys[i] = k]]

\* s.split('/')[-1]: what follows the last slash
RECURSIVE split_last(_)
split_last(s) ==
    IF \E i \in 1..Len(s) : s[i] = "/"
    THEN split_last(Tail(s))
    ELSE s

\* the two assignments of the loop body, on a record that has both keys
with_short_ids(r) ==
    [k \in DOMAIN r \cup {"entity_id"} |->
        IF k = "entity_id" THEN split_last(r["entity_uri"])
        ELSE IF k = "source_id_type" THEN split_last(r["source_id_type"])
        ELSE r[k]]

\* the loop body raises KeyError on this record
loop_key_error(r) == "entity_uri" \notin DOMAIN r \/ "source_id_type" \notin DOMAIN r

\* faulty variant: the range is taken from the first row twice
first_row_range(results) ==
    <<results[1]["last_modified"], results[1]["last_modified"]>>

\* faulty variant: the range is given as (last, first)
last_first_range(results) ==
    <<results[Len(results)]["last_modified"], results[1]["last_modified"]>>

\* (results[0]['last_modified'], results[-1]['last_modified'])
results_range(results) ==
    <<results[1]["last_modified"], results[Len(results)]["last_modified"]>>

\* retrieve_paged_assets from the store's answer on: what it returns or
\* raises, and how many warnings it has logged by then
paged_assets(query_result) ==
    LET results == [i \in 1..Len(query_result) |-> dict_zip(fields, query_result[i])]
    IN  IF results = <<>>
        THEN [outcome |-> "returned", results |-> <<>>, range |-> <<>>, warnings |-> 0]
        ELSE IF \E i \in 1..Len(results) : loop_key_error(results[i])
        THEN [outcome |-> "KeyError", results |-> <<>>, range |-> <<>>, warnings |-> 0]
        ELSE LET short == [i \in 1..Len(results) |-> with_short_ids(results[i])]
                 warnings == IF "last_modified" \notin DOMAIN short[1] THEN 1 ELSE 0
             IN  IF \/ "last_modified" \notin DOMAIN short[1]
                    \/ "last_modified" \notin DOMAIN short[Len(short)]
                 THEN [outcome |-> "KeyError", results |-> <<>>, range |-> <<>>,
                       warnings |-> warnings]
                 ELSE [outcome |-> "returned", results |-> short,
                       range |-> results_range(short), warnings |-> warnings]

\* faulty variant: `if not results` is gone, so results[0] of an empty list
\* raises IndexError
paged_assets_unguarded(query_result) ==
    IF query_result = <<>>
    THEN [outcome |-> "IndexError", results |-> <<>>, range |-> <<>>, warnings |-> 0]
    ELSE paged_assets(query_result)

\* retrieve_paged_assets past the answer of Asset._retrieve_paged_ids
retrieve_paged_assets(query_result) == paged_assets(query_result)

\* the rows the store may answer with: rows of the four expected fields and
\* every shorter prefix of one
PagedRows ==
    LET full == {<<uri, <<"s">>, <<"h", "/", "t">>, t>> :
                    uri \in {<<"n", "/", "X">>, <<"Y">>}, t \in 1..MaxTime}
    IN  {SubSeq(row, 1, k) : row \in full, k \in 0..4}

InitPaged ==
    /\ p_query_result \in SeqsUpTo(PagedRows, MaxRows)
    /\ p_outcome = "call"
    /\ p_results = <<>>
    /\ p_range = <<>>
    /\ p_warnings = 0

IdlePaged ==
    /\ p_query_result = <<>>
    /\ p_outcome = "idle"
    /\ p_results = <<>>
    /\ p_range = <<>>
    /\ p_warnings = 0

\* Asset._retrieve_paged_ids answers with query_result and the call runs to
\* its return or to the exception it raises
RetrievePaged ==
    /\ p_outcome = "call"
    /\ LET r == retrieve_paged_assets(p_query_result)
       IN  /\ p_outcome' = r.outcome
           /\ p_results' = r.results
           /\ p_range' = r.range
           /\ p_warnings' = r.warnings
    /\ UNCHANGED p_query_result

\* Asset._retrieve_paged_ids fails: the store's error leaves the coroutine
RetrievePagedStoreFails ==
    /\ p_outcome = "call"
    /\ p_outcome' = "StoreError"
    /\ UNCHANGED <<p_query_result, p_results, p_range, p_warnings>>

----------------------------------------------------------------------------
(* _validate_ids *)

\* the dicts the validator is fed: each key present or absent (None), each
\* present value empty or not
ValidateEntries ==
    LET types == {<<>>, HUB_KEY, ISBN}
        values == {<<>>, <<"a">>}
    IN  {[source_id_type |-> t, source_id |-> s] : t \in types, s \in values}
        \cup {[source_id_type |-> t] : t \in types}
        \cup {[source_id |-> s] : s \in values}
        \cup {<<>>}

\* `not data_id.get(key)`: the key is absent, None or the empty string
not_get(data_id, key) == key \notin DOMAIN data_id \/ data_id[key] = <<>>

\* 'Missing <field> for entry:{}'.format(index + 1)
missing_error(field, index) == [missing |-> field, entry |-> index + 1]

\* faulty variant: the second test made an elif, one error at most per entry
entry_errors_elif(data_id, index) ==
    IF not_get(data_id, "source_id_type")
    THEN <<missing_error("source_id_type", index)>>
    ELSE IF not_get(data_id, "source_id")
         THEN <<missing_error("source_id", index)>>
         ELSE <<>>

\* the body of the loop of _validate_ids for one (index, data_id)
entry_errors(data_id, index) ==
    (IF not_get(data_id, "source_id_type")
     THEN <<missing_error("source_id_type", index)>> ELSE <<>>)
    \o
    (IF not_get(data_id, "source_id")
     THEN <<missing_error("source_id", index)>> ELSE <<>>)

RECURSIVE validate_from(_, _)
\* the loop of _validate_ids from the 0-based position index on
validate_from(ids, index) ==
    IF index >= Len(ids) THEN <<>>
    ELSE entry_errors(ids[index + 1], index) \o validate_from(ids, index + 1)

RECURSIVE validate_first_error(_, _)
\* faulty variant: the loop returns at the first entry that has an error
validate_first_error(ids, index) ==
    IF index >= Len(ids) THEN <<>>
    ELSE IF entry_errors(ids[index + 1], index) # <<>>
         THEN entry_errors(ids[index + 1], index)
         ELSE validate_first_error(ids, index + 1)

\* faulty variant of _validate_ids: short-circuit on the first malformed entry
validate_ids_short_circuit(ids) == validate_first_error(ids, 0)

_validate_ids(ids) == validate_from(ids, 0)

InitValidate ==
    /\ v_ids \in SeqsUpTo(ValidateEntries, MaxIds)
    /\ v_errors = <<>>
    /\ v_pc = "call"

IdleValidate ==
    /\ v_ids = <<>>
    /\ v_errors = <<>>
    /\ v_pc = "idle"

\* errors = _validate_ids(ids)
Validate ==
    /\ v_pc = "call"
    /\ v_errors' = _validate_ids(v_ids)
    /\ v_pc' = "returned"
    /\ UNCHANGED v_ids

----------------------------------------------------------------------------
(* add_ids and _insert_ids *)

Calls == 1..NumCalls

\* one ASSET_APPEND_ALSO_IDENTIFIED.format(...) of the loop of _insert_ids
append_statement(entity_id, next_id, uuid) ==
    [entity_id |-> normalise_id(entity_id),
     source_id_type |-> build_hub_reference(next_id["source_id_type"]),
     source_id_value |-> build_sparql_str(next_id["source_id"]),
     bnodeuuid0 |-> uuid]

\* faulty variant: the loop body runs for the first id only
insert_query_first_only(entity_id, ids, uuid0) ==
    <<append_statement(entity_id, ids[1], uuid0 + 1)>>

\* the query _insert_ids builds: one statement per id, in the order of ids,
\* each with a fresh uuid
insert_query(entity_id, ids, uuid0) ==
    [i \in 1..Len(ids) |-> append_statement(entity_id, ids[i], uuid0 + i)]

\* faulty variant: `if not errors`
no_errors(ids, errors) == errors = <<>>

\* `if ids and not errors` of add_ids
ids_and_not_errors(ids, errors) == ids # <<>> /\ errors = <<>>

\* the dicts add_ids is fed: two well-formed ones and one that lacks its type
AppendEntries ==
    {[source_id_type |-> ISBN, source_id |-> <<"1", "/", "2">>],
     [source_id_type |-> HUB_KEY, source_id |-> <<"a">>],
     [source_id |-> <<"a">>]}

\* the forms of entity_id: a bare token, the id: form, the IRI, mixed case
AppendEntities ==
    {<<"a", "b">>, ID_COLON \o <<"a", "b">>, PREFIXES_id \o <<"a", "b">>, <<"A", "b">>}

\* the entities of the add_ids calls that run beside the first one: the
\* same entity as the first call's, or another
BackgroundEntities == {<<"a", "b">>, <<"c">>}

\* the entity of the add_ids calls that run beside on_store
ConcurrentEntity == <<"a", "b">>

\* the lists of ids of the add_ids calls that run beside on_store
ConcurrentIds ==
    {<<[source_id_type |-> ISBN, source_id |-> <<"b">>]>>,
     <<[source_id_type |-> HUB_KEY, source_id |-> <<"a">>]>>}

\* the list of ids of the add_ids calls that run beside the first one
BackgroundIds == <<[source_id_type |-> ISBN, source_id |-> <<"b">>]>>

\* a call issued to the store or to insert_timestamps by add_ids call c
store_call(c, op, payload) == [call |-> c, op |-> op, payload |-> payload]

InitAppend ==
    /\ a_pc = [c \in Calls |-> "idle"]
    /\ a_entity_id = [c \in Calls |-> <<>>]
    /\ a_ids = [c \in Calls |-> <<>>]
    /\ a_result = [c \in Calls |-> <<>>]
    /\ a_exception = [c \in Calls |-> "none"]
    /\ a_update = [c \in Calls |-> "none"]
    /\ store_data = {}
    /\ store_modified = {}
    /\ store_log = <<>>
    /\ uuid_next = 0

IdleAppend ==
    /\ a_pc = [c \in Calls |-> "unused"]
    /\ a_entity_id = [c \in Calls |-> <<>>]
    /\ a_ids = [c \in Calls |-> <<>>]
    /\ a_result = [c \in Calls |-> <<>>]
    /\ a_exception = [c \in Calls |-> "none"]
    /\ a_update = [c \in Calls |-> "none"]
    /\ store_data = {}
    /\ store_modified = {}
    /\ store_log = <<>>
    /\ uuid_next = 0

\* faulty variant: _insert_ids is started without `yield`, add_ids goes on to
\* insert_timestamps while the update is still in flight
AddIdsNoYield(c, entity_id, ids) ==
    /\ a_pc[c] = "idle"
    /\ a_entity_id' = [a_entity_id EXCEPT ![c] = entity_id]
    /\ a_ids' = [a_ids EXCEPT ![c] = ids]
    /\ LET errors == _validate_ids(ids)
       IN  IF ids_and_not_errors(ids, errors)
           THEN /\ a_pc' = [a_pc EXCEPT ![c] = "insert_timestamps"]
                /\ a_update' = [a_update EXCEPT ![c] = "pending"]
                /\ store_log' = store_log
                                  \o <<store_call(c, "update",
                                                  insert_query(entity_id, ids, uuid_next)),
                                       store_call(c, "insert_timestamps", <<entity_id>>)>>
                /\ uuid_next' = uuid_next + Len(ids)
                /\ UNCHANGED a_result
           ELSE /\ a_pc' = [a_pc EXCEPT ![c] = "returned"]
                /\ a_result' = [a_result EXCEPT ![c] = errors]
                /\ UNCHANGED <<a_update, store_log, uuid_next>>
    /\ UNCHANGED <<a_exception, store_data, store_modified>>

\* add_ids(repository, entity_id, ids) up to its first suspension: the
\* validation, then either the return of the errors or _insert_ids up to its
\* repository.update (for empty ids _insert_ids returns at once and add_ids
\* goes on to insert_timestamps)
AddIds(c, entity_id, ids) ==
    /\ a_pc[c] = "idle"
    /\ a_entity_id' = [a_entity_id EXCEPT ![c] = entity_id]
    /\ a_ids' = [a_ids EXCEPT ![c] = ids]
    /\ LET errors == _validate_ids(ids)
       IN  IF ids_and_not_errors(ids, errors)
           THEN IF ids = <<>>
                THEN /\ a_pc' = [a_pc EXCEPT ![c] = "insert_timestamps"]
                     /\ store_log' = Append(store_log,
                                            store_call(c, "insert_timestamps", <<entity_id>>))
                     /\ UNCHANGED <<a_result, a_update, uuid_next>>
                ELSE /\ a_pc' = [a_pc EXCEPT ![c] = "update"]
                     /\ a_update' = [a_update EXCEPT ![c] = "pending"]
                     /\ store_log' = Append(store_log,
                                            store_call(c, "update",
                                                       insert_query(entity_id, ids, uuid_next)))
                     /\ uuid_next' = uuid_next + Len(ids)
                     /\ UNCHANGED a_result
           ELSE /\ a_pc' = [a_pc EXCEPT ![c] = "returned"]
                /\ a_result' = [a_result EXCEPT ![c] = errors]
                /\ UNCHANGED <<a_update, store_log, uuid_next>>
    /\ UNCHANGED <<a_exception, store_data, store_modified>>

\* the query of the update that call c is suspended on
pending_update(c) ==
    LET k == CHOOSE k \in 1..Len(store_log) :
                 store_log[k].call = c /\ store_log[k].op = "update"
    IN  store_log[k].payload

\* faulty variant: the update replaces the edges of the entity (a
\* DELETE/INSERT), it does not add to them
UpdateResolvesReplacing(c) ==
    /\ a_pc[c] = "update"
    /\ a_update' = [a_update EXCEPT ![c] = "resolved"]
    /\ store_data' = {st \in store_data : st.entity_id # normalise_id(a_entity_id[c])}
                        \cup {pending_update(c)[i] : i \in 1..Len(pending_update(c))}
    /\ store_log' = Append(store_log, store_call(c, "insert_timestamps", <<a_entity_id[c]>>))
    /\ a_pc' = [a_pc EXCEPT ![c] = "insert_timestamps"]
    /\ UNCHANGED <<a_entity_id, a_ids, a_result, a_exception, store_modified, uuid_next>>

\* repository.update resolves: the store has committed the statements,
\* _insert_ids returns and add_ids issues insert_timestamps(repository, [entity_id])
UpdateResolves(c) ==
    /\ a_pc[c] = "update"
    /\ a_update' = [a_update EXCEPT ![c] = "resolved"]
    /\ store_data' = store_data \cup {pending_update(c)[i] : i \in 1..Len(pending_update(c))}
    /\ store_log' = Append(store_log, store_call(c, "insert_timestamps", <<a_entity_id[c]>>))
    /\ a_pc' = [a_pc EXCEPT ![c] = "insert_timestamps"]
    /\ UNCHANGED <<a_entity_id, a_ids, a_result, a_exception, store_modified, uuid_next>>

\* faulty variant: the failure of the update is swallowed and add_ids goes on
UpdateFailsSwallowed(c) ==
    /\ a_pc[c] = "update"
    /\ a_update' = [a_update EXCEPT ![c] = "failed"]
    /\ store_log' = Append(store_log, store_call(c, "insert_timestamps", <<a_entity_id[c]>>))
    /\ a_pc' = [a_pc EXCEPT ![c] = "insert_timestamps"]
    /\ UNCHANGED <<a_entity_id, a_ids, a_result, a_exception, store_data, store_modified,
                   uuid_next>>

\* repository.update fails: the store's error leaves _insert_ids and add_ids
UpdateFails(c) ==
    /\ a_pc[c] = "update"
    /\ a_update' = [a_update EXCEPT ![c] = "failed"]
    /\ a_pc' = [a_pc EXCEPT ![c] = "raised"]
    /\ a_exception' = [a_exception EXCEPT ![c] = "error of update"]
    /\ UNCHANGED <<a_entity_id, a_ids, a_result, store_data, store_modified, store_log,
                   uuid_next>>

\* insert_timestamps resolves and add_ids returns errors
TimestampsResolve(c) ==
    /\ a_pc[c] = "insert_timestamps"
    /\ store_modified' = store_modified \cup {a_entity_id[c]}
    /\ a_pc' = [a_pc EXCEPT ![c] = "returned"]
    /\ a_result' = [a_result EXCEPT ![c] = _validate_ids(a_ids[c])]
    /\ UNCHANGED <<a_entity_id, a_ids, a_exception, a_update, store_data, store_log,
                   uuid_next>>

\* faulty variant: the failure of insert_timestamps undoes the update
TimestampsFailRollsBack(c) ==
    /\ a_pc[c] = "insert_timestamps"
    /\ a_pc' = [a_pc EXCEPT ![c] = "raised"]
    /\ a_exception' = [a_exception EXCEPT ![c] = "error of insert_timestamps"]
    /\ store_data' = store_data \ {pending_update(c)[i] : i \in 1..Len(pending_update(c))}
    /\ UNCHANGED <<a_entity_id, a_ids, a_result, a_update, store_modified,
                   store_log, uuid_next>>

\* insert_timestamps fails: its error leaves add_ids
TimestampsFail(c) ==
    /\ a_pc[c] = "insert_timestamps"
    /\ a_pc' = [a_pc EXCEPT ![c] = "raised"]
    /\ a_exception' = [a_exception EXCEPT ![c] = "error of insert_timestamps"]
    /\ UNCHANGED <<a_entity_id, a_ids, a_result, a_update, store_data, store_modified,
                   store_log, uuid_next>>

----------------------------------------------------------------------------
(* get_asset_ids, Asset.on_store and send_notification *)

TYPE_MAPPING == ("text/rdf+n3" :> "n3") @@ ("application/xml" :> "xml")

\* faulty variant: TYPE_MAPPING.get(content_type, 'xml')
type_mapping_default(content_type) ==
    IF content_type \in DOMAIN TYPE_MAPPING THEN TYPE_MAPPING[content_type] ELSE "xml"

\* TYPE_MAPPING[content_type]: the format, or the KeyError of a missing key
type_mapping(content_type) ==
    IF content_type \in DOMAIN TYPE_MAPPING THEN TYPE_MAPPING[content_type] ELSE "KeyError"

\* the URIs of the entities a payload can declare
EntityURIs == {<<"n", "/", "X">>, <<"n", "/", "Y">>, <<"n", "/", "Z">>}

\* the payloads: a serialisation in one format of a graph that declares up to
\* MaxEntities distinct entities, in the order the graph query yields them
Payloads ==
    {[format |-> f, entities |-> e] :
        f \in {"n3", "xml"},
        e \in {q \in SeqsUpTo(EntityURIs, MaxEntities) :
                   \A i, j \in 1..Len(q) : q[i] = q[j] => i = j}}

\* the payload of the on_store call that runs beside add_ids calls
ConcurrentPayload == [format |-> "n3", entities |-> <<<<"n", "/", "X">>>>]

ContentTypes == {"text/rdf+n3", "application/xml", "application/json"}

\* get_asset_ids(assets_data, content_type): the list it returns, the
\* exception it raises, and whether graph.parse was called on the data
get_asset_ids(assets_data, content_type) ==
    LET format == type_mapping(content_type)
    IN  IF format = "KeyError"
        THEN [outcome |-> "KeyError", parsed |-> FALSE, result |-> <<>>]
        ELSE IF format # assets_data.format
        THEN [outcome |-> "ParserError", parsed |-> TRUE, result |-> <<>>]
        ELSE [outcome |-> "returned", parsed |-> TRUE,
              result |-> [i \in 1..Len(assets_data.entities) |->
                            [entity_id |-> split_last(assets_data.entities[i])]]]

\* [x[u'entity_id'] for x in assetids]
entity_ids_of(assetids) == [i \in 1..Len(assetids) |-> assetids[i]["entity_id"]]

\* faulty variant: the notification is sent in standalone mode too
always_notify(standalone) == TRUE

\* `if not options.standalone`
not_standalone(standalone) == ~standalone

InitOnStore ==
    /\ options_standalone \in BOOLEAN
    /\ os_pc = "idle"
    /\ os_payload = <<>>
    /\ os_content_type = ""
    /\ os_parsed = FALSE
    /\ os_result = <<>>
    /\ os_exception = "none"
    /\ sn_pc = "none"
    /\ sn_spawned = 0
    /\ sn_tokens = 0
    /\ sn_posts = 0
    /\ sn_failed = "none"
    /\ sn_logged = 0
    /\ sn_escaped = "none"

IdleOnStore ==
    /\ options_standalone = TRUE
    /\ os_pc = "unused"
    /\ os_payload = <<>>
    /\ os_content_type = ""
    /\ os_parsed = FALSE
    /\ os_result = <<>>
    /\ os_exception = "none"
    /\ sn_pc = "none"
    /\ sn_spawned = 0
    /\ sn_tokens = 0
    /\ sn_posts = 0
    /\ sn_failed = "none"
    /\ sn_logged = 0
    /\ sn_escaped = "none"

\* Asset.on_store(payload, content_type, repository) up to its suspension on
\* Entity.insert_timestamps, or to the exception of get_asset_ids; in the log
\* its call stands under 0, the add_ids calls under 1..NumCalls
OnStore(payload, content_type) ==
    /\ os_pc = "idle"
    /\ os_payload' = payload
    /\ os_content_type' = content_type
    /\ LET assetids == get_asset_ids(payload, content_type)
       IN  /\ os_parsed' = assetids.parsed
           /\ IF assetids.outcome = "returned"
              THEN /\ os_pc' = "insert_timestamps"
                   /\ store_log' = Append(store_log,
                                          store_call(0, "insert_timestamps",
                                                     entity_ids_of(assetids.result)))
                   /\ UNCHANGED os_exception
              ELSE /\ os_pc' = "raised"
                   /\ os_exception' = assetids.outcome
                   /\ UNCHANGED store_log
    /\ UNCHANGED <<options_standalone, os_result, notification_vars,
                   a_pc, a_entity_id, a_ids, a_result, a_exception, a_update,
                   store_data, store_modified, uuid_next>>

\* the ids of the insert_timestamps call that on_store is suspended on
on_store_entity_ids ==
    entity_ids_of(get_asset_ids(os_payload, os_content_type).result)

\* Entity.insert_timestamps resolves: on_store hands send_notification to the
\* IOLoop unless options.standalone, and returns assetids
OnStoreTimestampsResolve ==
    /\ os_pc = "insert_timestamps"
    /\ store_modified' = store_modified
                            \cup {on_store_entity_ids[i] : i \in 1..Len(on_store_entity_ids)}
    /\ IF not_standalone(options_standalone)
       THEN /\ sn_pc' = "spawned"
            /\ sn_spawned' = sn_spawned + 1
       ELSE UNCHANGED <<sn_pc, sn_spawned>>
    /\ os_pc' = "returned"
    /\ os_result' = get_asset_ids(os_payload, os_content_type).result
    /\ UNCHANGED <<options_standalone, os_payload, os_content_type, os_parsed, os_exception,
                   sn_tokens, sn_posts, sn_failed, sn_logged, sn_escaped,
                   a_pc, a_entity_id, a_ids, a_result, a_exception, a_update,
                   store_data, store_log, uuid_next>>

\* Entity.insert_timestamps fails: its error leaves on_store
OnStoreTimestampsFail ==
    /\ os_pc = "insert_timestamps"
    /\ os_pc' = "raised"
    /\ os_exception' = "error of insert_timestamps"
    /\ UNCHANGED <<options_standalone, os_payload, os_content_type, os_parsed, os_result,
                   notification_vars, append_vars>>

\* the IOLoop runs send_notification up to its suspension on get_token
SendNotification ==
    /\ sn_pc = "spawned"
    /\ sn_pc' = "get_token"
    /\ sn_tokens' = sn_tokens + 1
    /\ UNCHANGED <<sn_spawned, sn_posts, sn_failed, sn_logged, sn_escaped,
                   on_store_vars, append_vars>>

\* get_token resolves: the client is built, the request prepared and the
\* POST issued
GetTokenResolves ==
    /\ sn_pc = "get_token"
    /\ sn_pc' = "post"
    /\ sn_posts' = sn_posts + 1
    /\ UNCHANGED <<sn_spawned, sn_tokens, sn_failed, sn_logged, sn_escaped,
                   on_store_vars, append_vars>>

\* the POST resolves and send_notification ends
PostResolves ==
    /\ sn_pc = "post"
    /\ sn_pc' = "done"
    /\ UNCHANGED <<sn_spawned, sn_tokens, sn_posts, sn_failed, sn_logged, sn_escaped,
                   on_store_vars, append_vars>>

\* the step of send_notification that can fail where it stands: get_token
\* while suspended on it, prepare_request once the token is there, the POST
\* while suspended on it
can_fail(step) ==
    \/ step \in {"get_token", "prepare_request"} /\ sn_pc = "get_token"
    \/ step = "post" /\ sn_pc = "post"

\* faulty variant: no try/except, the exception leaves send_notification
NotificationEscapes(step) ==
    /\ can_fail(step)
    /\ sn_failed' = step
    /\ sn_escaped' = step
    /\ sn_pc' = "done"
    /\ UNCHANGED <<sn_spawned, sn_tokens, sn_posts, sn_logged, on_store_vars, append_vars>>

\* a step inside the try fails: `except Exception` logs it and
\* send_notification ends
NotificationFails(step) ==
    /\ can_fail(step)
    /\ sn_failed' = step
    /\ sn_logged' = sn_logged + 1
    /\ sn_pc' = "done"
    /\ UNCHANGED <<sn_spawned, sn_tokens, sn_posts, sn_escaped, on_store_vars, append_vars>>

----------------------------------------------------------------------------
(* Specifications *)

NextValidate == Validate /\ UNCHANGED <<normalise_vars, compile_vars, paged_vars, append_vars, on_store_vars, notification_vars>>

\* the state before the calls of this specification, the rest of the model idle
InitSpecValidate ==
    /\ InitValidate
    /\ IdleNormalise
    /\ IdleCompile
    /\ IdlePaged
    /\ IdleAppend
    /\ IdleOnStore

SpecValidate == InitSpecValidate /\ [][NextValidate]_vars

NextNormalise ==
    \/ Normalise /\ UNCHANGED <<validate_vars, compile_vars, paged_vars, append_vars, on_store_vars, notification_vars>>
    \/ NormaliseAgain /\ UNCHANGED <<validate_vars, compile_vars, paged_vars, append_vars, on_store_vars, notification_vars>>
    \/ NormaliseLowered /\ UNCHANGED <<validate_vars, compile_vars, paged_vars, append_vars, on_store_vars, notification_vars>>

\* the state before the calls of this specification, the rest of the model idle
InitSpecNormalise ==
    /\ IdleValidate
    /\ InitNormalise
    /\ IdleCompile
    /\ IdlePaged
    /\ IdleAppend
    /\ IdleOnStore

SpecNormalise == InitSpecNormalise /\ [][NextNormalise]_vars

NextCompile ==
    \/ SubselectRaise /\ UNCHANGED <<validate_vars, normalise_vars, paged_vars, append_vars, on_store_vars, notification_vars>>
    \/ SubselectReturn /\ UNCHANGED <<validate_vars, normalise_vars, paged_vars, append_vars, on_store_vars, notification_vars>>

\* the state before the calls of this specification, the rest of the model idle
InitSpecCompile ==
    /\ IdleValidate
    /\ IdleNormalise
    /\ InitCompile
    /\ IdlePaged
    /\ IdleAppend
    /\ IdleOnStore

SpecCompile == InitSpecCompile /\ [][NextCompile]_vars

NextPaged ==
    \/ RetrievePaged /\ UNCHANGED <<validate_vars, normalise_vars, compile_vars, append_vars, on_store_vars, notification_vars>>
    \/ RetrievePagedStoreFails /\ UNCHANGED <<validate_vars, normalise_vars, compile_vars, append_vars, on_store_vars, notification_vars>>

\* the state before the calls of this specification, the rest of the model idle
InitSpecPaged ==
    /\ IdleValidate
    /\ IdleNormalise
    /\ IdleCompile
    /\ InitPaged
    /\ IdleAppend
    /\ IdleOnStore

SpecPaged == InitSpecPaged /\ [][NextPaged]_vars

other_than_append == <<validate_vars, normalise_vars, compile_vars, paged_vars,
                       on_store_vars, notification_vars>>

NextAppend ==
    \/ \E entity_id \in AppendEntities, ids \in SeqsUpTo(AppendEntries, MaxAppendIds) :
          AddIds(1, entity_id, ids) /\ UNCHANGED other_than_append
    \/ \E c \in Calls \ {1}, entity_id \in BackgroundEntities :
          AddIds(c, entity_id, BackgroundIds) /\ UNCHANGED other_than_append
    \/ \E c \in Calls : UpdateResolves(c) /\ UNCHANGED other_than_append
    \/ \E c \in Calls : UpdateFails(c) /\ UNCHANGED other_than_append
    \/ \E c \in Calls : TimestampsResolve(c) /\ UNCHANGED other_than_append
    \/ \E c \in Calls : TimestampsFail(c) /\ UNCHANGED other_than_append

\* the state before the calls of this specification, the rest of the model idle
InitSpecAppend ==
    /\ IdleValidate
    /\ IdleNormalise
    /\ IdleCompile
    /\ IdlePaged
    /\ InitAppend
    /\ IdleOnStore

SpecAppend == InitSpecAppend /\ [][NextAppend]_vars

pure_vars == <<validate_vars, normalise_vars, compile_vars, paged_vars>>

NextOnStore ==
    \/ \E payload \in Payloads, content_type \in ContentTypes :
          OnStore(payload, content_type) /\ UNCHANGED pure_vars
    \/ OnStoreTimestampsResolve /\ UNCHANGED pure_vars
    \/ OnStoreTimestampsFail /\ UNCHANGED pure_vars
    \/ SendNotification /\ UNCHANGED pure_vars
    \/ GetTokenResolves /\ UNCHANGED pure_vars
    \/ PostResolves /\ UNCHANGED pure_vars
    \/ \E step \in {"get_token", "prepare_request", "post"} :
          NotificationFails(step) /\ UNCHANGED pure_vars

\* the state before the calls of this specification, the rest of the model idle
InitSpecOnStore ==
    /\ IdleValidate
    /\ IdleNormalise
    /\ IdleCompile
    /\ IdlePaged
    /\ IdleAppend
    /\ InitOnStore

SpecOnStore == InitSpecOnStore /\ [][NextOnStore]_vars

NextStore ==
    \/ \E c \in Calls, ids \in ConcurrentIds :
          AddIds(c, ConcurrentEntity, ids) /\ UNCHANGED other_than_append
    \/ \E c \in Calls : UpdateResolves(c) /\ UNCHANGED other_than_append
    \/ \E c \in Calls : UpdateFails(c) /\ UNCHANGED other_than_append
    \/ \E c \in Calls : TimestampsResolve(c) /\ UNCHANGED other_than_append
    \/ \E c \in Calls : TimestampsFail(c) /\ UNCHANGED other_than_append
    \/ \E content_type \in DOMAIN TYPE_MAPPING :
          OnStore(ConcurrentPayload, content_type) /\ UNCHANGED pure_vars
    \/ OnStoreTimestampsResolve /\ UNCHANGED pure_vars
    \/ OnStoreTimestampsFail /\ UNCHANGED pure_vars

\* the state before the calls of this specification: add_ids calls and one
\* on_store call in standalone mode, the rest of the model idle
InitSpecStore ==
    /\ IdleValidate
    /\ IdleNormalise
    /\ IdleCompile
    /\ IdlePaged
    /\ InitAppend
    /\ InitOnStore
    /\ options_standalone

SpecStore == InitSpecStore /\ [][NextStore]_vars

----------------------------------------------------------------------------
(* Claims about _validate_ids, checked under SpecValidate *)

\* an entry has no non-empty value under key
Lacks(data_id, key) == ~(key \in DOMAIN data_id /\ Len(data_id[key]) > 0)

Malformed(data_id) == Lacks(data_id, "source_id_type") \/ Lacks(data_id, "source_id")

MalformedPositions(ids) == {p \in 1..Len(ids) : Malformed(ids[p])}

MissingFields(ids) ==
    {<<p, k>> \in (1..Len(ids)) \X {"source_id_type", "source_id"} : Lacks(ids[p], k)}

\* C4: _validate_ids returns its errors in ascending position order, with an
\* error naming the 1-based position of every entry that lacks a non-empty
\* source_id_type or a non-empty source_id (one for each field it lacks),
\* and no error naming the position of an entry that has both: a malformed
\* entry never hides the errors of a later one.
C4_TotalValidation ==
    v_pc = "returned" =>
        /\ \A i, j \in 1..Len(v_errors) : i < j => v_errors[i].entry <= v_errors[j].entry
        /\ \A pk \in MissingFields(v_ids) :
              \E i \in 1..Len(v_errors) :
                  v_errors[i] = [missing |-> pk[2], entry |-> pk[1]]
        /\ \A i \in 1..Len(v_errors) : v_errors[i].entry \in MalformedPositions(v_ids)

\* C4 witness: two malformed entries in a row, both reported
C4_Witness ==
    /\ v_pc = "returned"
    /\ Len(v_ids) = 2
    /\ Malformed(v_ids[1]) /\ Malformed(v_ids[2])
    /\ \E i, j \in 1..Len(v_errors) : v_errors[i].entry = 1 /\ v_errors[j].entry = 2

\* C5 as stated: the number of errors equals the number of malformed entries.
C5_OneErrorPerEntry ==
    v_pc = "returned" => Len(v_errors) = Cardinality(MalformedPositions(v_ids))

\* C5 amended: the number of errors equals the number of missing fields, one
\* error for each field an entry lacks, so a malformed entry yields one error
\* when it lacks one field and two when it lacks both.
C5_OneErrorPerMissingField ==
    v_pc = "returned" =>
        /\ Len(v_errors) = Cardinality(MissingFields(v_ids))
        /\ Len(v_errors) >= Cardinality(MalformedPositions(v_ids))
        /\ Len(v_errors) <= 2 * Cardinality(MalformedPositions(v_ids))

\* C5 witness: a single entry that lacks both fields gives two errors
C5_Witness ==
    /\ v_pc = "returned"
    /\ Len(v_ids) = 1
    /\ Lacks(v_ids[1], "source_id_type") /\ Lacks(v_ids[1], "source_id")
    /\ Len(v_errors) = 2

----------------------------------------------------------------------------
(* Claims about Asset.asset_subselect_idlist, checked under SpecCompile *)

\* C6: asset_subselect_idlist called with an empty idlist fails with
\* ValueError and produces no fragment; called with a non-empty idlist it
\* does not raise that error.
C6_NonEmptinessGuard ==
    c_outcome # "call" =>
        /\ c_idlist = <<>> => (c_outcome = "ValueError" /\ c_fragment = <<>>)
        /\ c_idlist # <<>> => (c_outcome = "returned" /\ c_fragment # <<>>)

C6_Witness == c_outcome = "ValueError" /\ c_idlist = <<>>

\* the tokens of the fragment that are sub-blocks filled from the template
BlocksOf(template) == {k \in 1..Len(c_fragment) : c_fragment[k].token = template}

HubPositions == {p \in 1..Len(c_idlist) : c_idlist[p].source_id_type = HUB_KEY}
OtherPositions == (1..Len(c_idlist)) \ HubPositions
Unions == {k \in 1..Len(c_fragment) : c_fragment[k].token = "UNION"}

\* the number of value tuples of all the sub-blocks filled from the template
TuplesIn(template) ==
    IF BlocksOf(template) = {} THEN 0
    ELSE Len(c_fragment[CHOOSE k \in BlocksOf(template) : TRUE].idlist)

\* C7: for a non-empty idlist the fragment has a hub-key sub-block iff some
\* entry has source_id_type "hub_key", a foreign-id sub-block iff some entry
\* has another type, a UNION between them exactly when both are there, and
\* one value tuple per input entry, in the sub-block of the entry's class.
C7_Partitioning ==
    c_outcome = "returned" =>
        /\ Cardinality(BlocksOf("ASSET_SELECT_BY_ENTITY_ID")) = (IF HubPositions # {} THEN 1 ELSE 0)
        /\ Cardinality(BlocksOf("ASSET_SELECT_BY_SOURCE_ID")) = (IF OtherPositions # {} THEN 1 ELSE 0)
        /\ Cardinality(Unions) = (IF HubPositions # {} /\ OtherPositions # {} THEN 1 ELSE 0)
        /\ \A u \in Unions :
              /\ \E k \in BlocksOf("ASSET_SELECT_BY_ENTITY_ID") : k < u
              /\ \E k \in BlocksOf("ASSET_SELECT_BY_SOURCE_ID") : k > u
        /\ TuplesIn("ASSET_SELECT_BY_ENTITY_ID") = Cardinality(HubPositions)
        /\ TuplesIn("ASSET_SELECT_BY_SOURCE_ID") = Cardinality(OtherPositions)
        /\ \A k \in BlocksOf("ASSET_SELECT_BY_ENTITY_ID") :
              \A r \in 1..Len(c_fragment[k].idlist) : Len(c_fragment[k].idlist[r]) = 1
        /\ \A k \in BlocksOf("ASSET_SELECT_BY_SOURCE_ID") :
              \A r \in 1..Len(c_fragment[k].idlist) : Len(c_fragment[k].idlist[r]) = 2

\* C7 witness: a mixed list compiled into two sub-blocks joined by UNION
C7_Witness ==
    /\ c_outcome = "returned"
    /\ Cardinality(HubPositions) = 2
    /\ Cardinality(OtherPositions) = 1
    /\ Cardinality(Unions) = 1
    /\ TuplesIn("ASSET_SELECT_BY_ENTITY_ID") = 2
    /\ TuplesIn("ASSET_SELECT_BY_SOURCE_ID") = 1

----------------------------------------------------------------------------
(* Claims about Asset.normalise_id, checked under SpecNormalise *)

\* C8: normalise_id is idempotent: normalise_id(normalise_id(x)) equals
\* normalise_id(x) for every string x, malformed, prefixed or wrapped.
C8_Idempotent ==
    "again" \in n_done => n_again = n_result

\* C9: normalise_id(X) equals normalise_id(lowercase(X)) for every string X,
\* also when X carries the namespace prefix in another letter case.
C9_CaseInsensitive ==
    {"result", "lowered"} \subseteq n_done => n_result = n_lowered

----------------------------------------------------------------------------
(* Claims about retrieve_paged_assets, checked under SpecPaged *)

ShortRows == {i \in 1..Len(p_query_result) : Len(p_query_result[i]) < Len(fields)}

\* C10: when the store answers with a non-empty result set in which some row
\* has fewer than the four expected fields, the call logs a warning and
\* still returns a result holding the partial records; it never raises
\* because of the missing fields.
C10_ShortRowsNotFatal ==
    (p_outcome \notin {"call", "StoreError"} /\ ShortRows # {}) =>
        /\ p_outcome = "returned"
        /\ p_warnings > 0
        /\ Len(p_results) = Len(p_query_result)

----------------------------------------------------------------------------
(* Claims about add_ids, checked under SpecAppend *)

\* the positions in store_log of the calls of kind op issued by add_ids call c
Issued(c, op) == {k \in 1..Len(store_log) : store_log[k].call = c /\ store_log[k].op = op}

Started(c) == a_pc[c] \notin {"idle", "unused"}

Gated(c) == a_ids[c] = <<>> \/ MalformedPositions(a_ids[c]) # {}

\* C1: an add_ids call whose ids is empty or has a validation error issues
\* neither repository.update nor insert_timestamps and returns the list of
\* validation errors, the empty list when ids is empty.
C1_AppendGating ==
    \A c \in Calls :
        (Started(c) /\ Gated(c)) =>
            /\ Issued(c, "update") = {} /\ Issued(c, "insert_timestamps") = {}
            /\ a_update[c] = "none"
            /\ a_pc[c] = "returned"
            /\ a_exception[c] = "none"
            /\ Len(a_result[c]) = Cardinality(MissingFields(a_ids[c]))
            /\ \A i \in 1..Len(a_result[c]) :
                  <<a_result[c][i].entry, a_result[c][i].missing>> \in MissingFields(a_ids[c])
            /\ a_ids[c] = <<>> => a_result[c] = <<>>

\* C1 witness: a list with a well-formed and a malformed entry is turned
\* down whole, and so is the empty list, while another call's writes go on
C1_Witness ==
    /\ a_pc[1] = "returned"
    /\ Len(a_ids[1]) = 2
    /\ ~Malformed(a_ids[1][1]) /\ Malformed(a_ids[1][2])
    /\ a_result[1] # <<>>
    /\ Issued(1, "update") = {} /\ Issued(1, "insert_timestamps") = {}
    /\ store_log # <<>>

\* C2: an add_ids call with a non-empty, fully valid ids issues at most one
\* repository.update, carrying one write statement per element of ids in
\* input order, and at most one insert_timestamps, issued only after that
\* update has resolved successfully; when the call returns it has issued
\* exactly one of each and returns the empty list.
C2_AppendOrdering ==
    \A c \in Calls :
        (Started(c) /\ ~Gated(c)) =>
            /\ Cardinality(Issued(c, "update")) = 1
            /\ \A k \in Issued(c, "update") :
                  /\ Len(store_log[k].payload) = Len(a_ids[c])
                  /\ \A i \in 1..Len(a_ids[c]) :
                        /\ store_log[k].payload[i].source_id_type
                               = build_hub_reference(a_ids[c][i].source_id_type)
                        /\ store_log[k].payload[i].source_id_value
                               = build_sparql_str(a_ids[c][i].source_id)
            /\ Cardinality(Issued(c, "insert_timestamps")) <= 1
            /\ \A j \in Issued(c, "insert_timestamps") :
                  /\ a_update[c] = "resolved"
                  /\ \A k \in Issued(c, "update") :
                        /\ k < j
                        /\ \A i \in 1..Len(store_log[k].payload) :
                              store_log[k].payload[i] \in store_data
            /\ a_pc[c] = "returned" =>
                  /\ Cardinality(Issued(c, "insert_timestamps")) = 1
                  /\ a_result[c] = <<>>
                  /\ a_exception[c] = "none"

\* C2 witness: a call with two valid ids has returned after its update and
\* its insert_timestamps
C2_Witness ==
    /\ a_pc[1] = "returned"
    /\ Len(a_ids[1]) = 2
    /\ ~Gated(1)
    /\ a_ids[1][1] # a_ids[1][2]
    /\ Cardinality(Issued(1, "update")) = 1
    /\ Cardinality(Issued(1, "insert_timestamps")) = 1
    /\ a_result[1] = <<>>

\* C3: when repository.update fails during add_ids the failure is not
\* retried and leaves add_ids as it is (no list of errors is returned), and
\* insert_timestamps is never issued for that call.
C3_StoreFailurePropagates ==
    \A c \in Calls :
        a_update[c] = "failed" =>
            /\ a_pc[c] = "raised"
            /\ a_exception[c] = "error of update"
            /\ Cardinality(Issued(c, "update")) = 1
            /\ Issued(c, "insert_timestamps") = {}

\* C3 witness: the update of a call has failed and the call has raised
C3_Witness ==
    /\ a_update[1] = "failed"
    /\ a_pc[1] = "raised"
    /\ Issued(1, "update") # {}

CompleteRows == \A i \in 1..Len(p_query_result) : Len(p_query_result[i]) = Len(fields)

\* the rows came from the store in ascending order of last_modified
AscendingRows ==
    /\ CompleteRows
    /\ \A i, j \in 1..Len(p_query_result) :
          i < j => p_query_result[i][4] <= p_query_result[j][4]

Answered == p_outcome \notin {"idle", "call", "StoreError"}

\* C11: when the store answers with a non-empty result set of complete rows,
\* retrieve_paged_assets returns all the rows in the order received, with
\* modified_range = (last_modified of the first row, last_modified of the
\* last row).
C11_PagedRange ==
    (Answered /\ CompleteRows /\ p_query_result # <<>>) =>
        /\ p_outcome = "returned"
        /\ Len(p_results) = Len(p_query_result)
        /\ \A i \in 1..Len(p_results) :
              /\ p_results[i]["entity_uri"] = p_query_result[i][1]
              /\ p_results[i]["source_id"] = p_query_result[i][2]
              /\ p_results[i]["last_modified"] = p_query_result[i][4]
        /\ p_range = <<p_query_result[1][4], p_query_result[Len(p_query_result)][4]>>

\* C11 witness: three rows with t1 < t2 < t3 give the range (t1, t3)
C11_Witness ==
    /\ p_outcome = "returned"
    /\ Len(p_query_result) = 3
    /\ CompleteRows
    /\ p_query_result[1][4] = 1 /\ p_query_result[2][4] = 2 /\ p_query_result[3][4] = 3
    /\ p_range = <<1, 3>>

\* the last_modified values of the returned records
Modified == {p_results[i]["last_modified"] : i \in 1..Len(p_results)}

RecordsAscending ==
    \A i, j \in 1..Len(p_results) :
        i < j => p_results[i]["last_modified"] <= p_results[j]["last_modified"]

RangeIsMinMax ==
    p_results # <<>> =>
        /\ Len(p_range) = 2
        /\ p_range[1] \in Modified /\ \A t \in Modified : p_range[1] <= t
        /\ p_range[2] \in Modified /\ \A t \in Modified : t <= p_range[2]

\* C12 as stated: for every result the store may return, the returned
\* records are in ascending order of last_modified and modified_range is
\* (minimum, maximum) of last_modified over the records of the page.
C12_AlwaysOrdered ==
    (p_outcome = "returned" /\ CompleteRows) => (RecordsAscending /\ RangeIsMinMax)

\* C12 amended: when the store returns its rows in ascending order of
\* last_modified, the returned records are in that order and modified_range
\* is (minimum, maximum); the rows are never sorted here, so they come back
\* in the order of the store.
C12_OrderedIfStoreOrdered ==
    /\ (Answered /\ AscendingRows) =>
          (p_outcome = "returned" /\ RecordsAscending /\ RangeIsMinMax)
    /\ (p_outcome = "returned" /\ CompleteRows) =>
          /\ Len(p_results) = Len(p_query_result)
          /\ \A i \in 1..Len(p_results) :
                p_results[i]["last_modified"] = p_query_result[i][4]

\* C12 witness: two rows in ascending order with different times
C12_Witness ==
    /\ p_outcome = "returned"
    /\ Len(p_query_result) = 2
    /\ AscendingRows
    /\ p_query_result[1][4] < p_query_result[2][4]
    /\ p_range = <<p_query_result[1][4], p_query_result[2][4]>>

\* C13: when the store returns no rows for the window, retrieve_paged_assets
\* returns ([], ()) and does not raise.
C13_EmptyWindow ==
    (Answered /\ p_query_result = <<>>) =>
        /\ p_outcome = "returned"
        /\ p_results = <<>>
        /\ p_range = <<>>
        /\ p_warnings = 0

\* C13 witness: the call has returned on an empty answer
C13_Witness == p_outcome = "returned" /\ p_query_result = <<>> /\ p_range = <<>>

----------------------------------------------------------------------------
(* Claims about Asset.on_store, get_asset_ids and send_notification *)

\* the store calls issued by Asset.on_store
OnStoreCalls == {k \in 1..Len(store_log) : store_log[k].call = 0}

\* the list on_store returns for its arguments: one record per declared
\* entity, holding the last path segment of its URI
ExtractedIds ==
    [i \in 1..Len(os_payload.entities) |->
        [entity_id |-> split_last(os_payload.entities[i])]]

C15_UnsupportedContentType ==
    (os_pc \notin {"idle", "unused"}
        /\ os_content_type \notin {"text/rdf+n3", "application/xml"}) =>
        /\ os_pc = "raised"
        /\ os_exception = "KeyError"
        /\ ~os_parsed
        /\ OnStoreCalls = {}
        /\ sn_spawned = 0
        /\ sn_pc = "none"

C15_Witness ==
    /\ os_pc = "raised"
    /\ os_content_type = "application/json"
    /\ os_payload.format = "xml"
    /\ Len(os_payload.entities) > 0

\* C19: send_notification is spawned at most once, only when
\* options.standalone is not set and only once the insert_timestamps of
\* on_store has resolved (its ids are stamped, no exception left on_store);
\* whenever a notification is spawned, running or ended, on_store has
\* already returned, and a call that returns with options.standalone unset
\* has spawned one.
C19_NotificationOrdering ==
    /\ sn_spawned \in {0, 1}
    /\ sn_spawned = 1 =>
          /\ ~options_standalone
          /\ os_pc = "returned"
          /\ os_exception = "none"
          /\ OnStoreCalls # {}
          /\ \A i \in 1..Len(ExtractedIds) : ExtractedIds[i]["entity_id"] \in store_modified
    /\ sn_pc # "none" <=> sn_spawned = 1
    /\ (os_pc = "returned" /\ ~options_standalone) => sn_spawned = 1
    /\ options_standalone => sn_spawned = 0

\* on_store has returned while its notification has not begun to run
C19_Witness ==
    /\ os_pc = "returned"
    /\ os_result # <<>>
    /\ sn_pc = "spawned"
    /\ sn_tokens = 0

----------------------------------------------------------------------------
(* Claims about the two steps of add_ids *)

\* the statements of the update that call c issued
StatementsOf(c) ==
    UNION {{store_log[k].payload[i] : i \in 1..Len(store_log[k].payload)} :
              k \in Issued(c, "update")}

\* C16: once the update of an add_ids call has resolved, its statements are
\* in the store and stay there whatever becomes of insert_timestamps; when
\* insert_timestamps fails, the failure leaves add_ids (nothing is returned),
\* the entity's timestamp was not written by this call and the statements
\* are still in the store.
C16_NoRollback ==
    \A c \in Calls :
        /\ a_update[c] = "resolved" =>
              StatementsOf(c) # {} /\ StatementsOf(c) \subseteq store_data
        /\ a_exception[c] = "error of insert_timestamps" =>
              /\ a_pc[c] = "raised"
              /\ a_result[c] = <<>>
              /\ a_update[c] = "resolved"
              /\ StatementsOf(c) \subseteq store_data

\* the identifiers of a call are committed, its insert_timestamps has
\* failed and no call has stamped the entity
C16_Witness ==
    /\ a_exception[1] = "error of insert_timestamps"
    /\ Len(a_ids[1]) = 2
    /\ StatementsOf(1) \subseteq store_data
    /\ Cardinality(StatementsOf(1)) = 2
    /\ store_modified = {}

\* C17: every insert_timestamps of an add_ids call stands in the log after
\* the update of that same call, and that update had resolved; a call
\* suspended on its update has issued no insert_timestamps.
C17_PerCallOrdering ==
    \A c \in Calls :
        /\ \A j \in Issued(c, "insert_timestamps") :
              /\ a_update[c] = "resolved"
              /\ \E k \in Issued(c, "update") : k < j
        /\ a_update[c] = "pending" =>
              a_pc[c] = "update" /\ Issued(c, "insert_timestamps") = {}

\* between the update and the insert_timestamps of one call stand the update
\* and the insert_timestamps of another call on the same entity
C17_Witness ==
    \E c, d \in Calls :
        /\ c # d
        /\ normalise_id(a_entity_id[c]) = normalise_id(a_entity_id[d])
        /\ \E k \in Issued(c, "update"), j \in Issued(c, "insert_timestamps") :
              \E m \in Issued(d, "update"), n \in Issued(d, "insert_timestamps") :
                  k < m /\ m < n /\ n < j

\* C20: for an add_ids call that has issued its insert_timestamps, every
\* statement of its update links normalise_id(entity_id), and the
\* insert_timestamps was issued for that normalised reference.
C20_SameEntityBothSteps ==
    \A c \in Calls :
        \A j \in Issued(c, "insert_timestamps") :
            /\ \A st \in StatementsOf(c) : st.entity_id = normalise_id(a_entity_id[c])
            /\ store_log[j].payload = <<normalise_id(a_entity_id[c])>>

----------------------------------------------------------------------------
(* Claims about the edges held by the store *)

\* the add_ids call has returned the empty list of errors after both steps
Succeeded(c) ==
    /\ a_pc[c] = "returned"
    /\ a_result[c] = <<>>
    /\ Issued(c, "update") # {}

\* C18: no step of an add_ids or on_store call removes a statement from the
\* store, and when two add_ids calls for the same entity have both
\* succeeded the statements of both are in the store.
C18_EdgesOnlyGrow ==
    /\ [][store_data \subseteq store_data']_vars
    /\ [](\A c, d \in Calls :
            (c # d /\ Succeeded(c) /\ Succeeded(d)
                /\ normalise_id(a_entity_id[c]) = normalise_id(a_entity_id[d])) =>
                /\ StatementsOf(c) \cup StatementsOf(d) \subseteq store_data
                /\ StatementsOf(c) \cap StatementsOf(d) = {})

\* two add_ids calls for one entity, their steps interleaved with each other
\* and with an on_store call, have succeeded with different identifiers
C18_Witness ==
    \E c, d \in Calls :
        /\ c # d /\ Succeeded(c) /\ Succeeded(d)
        /\ a_entity_id[c] = a_entity_id[d]
        /\ a_ids[c] # a_ids[d]
        /\ os_pc = "returned" /\ os_result # <<>>
        /\ StatementsOf(c) \cup StatementsOf(d) \subseteq store_data
        /\ \E k \in Issued(c, "update"), j \in Issued(c, "insert_timestamps") :
              /\ \E m \in Issued(d, "update") : k < m /\ m < j
              /\ \E n \in OnStoreCalls : k < n /\ n < j

====
